---- MODULE Spec2Model ----
(***************************************************************************)
(* Frame pipeline of tridigenerator_player: the ring of RING_SIZE frame    *)
(* slots shared by the background writer thread (WriterLoop) and the main  *)
(* thread (SwapNextFrame, then the renderer's Update), together with the   *)
(* writer's lifecycle (StartBackgroundWriter, StopBackgroundWriter, the    *)
(* destruction of the state at shutdown).                                  *)
(*                                                                         *)
(* Every atomic load or store of a variable the other thread can touch is  *)
(* one step; the std::atomic accesses are modelled as sequentially         *)
(* consistent at that granularity.  Time is counted in ticks of            *)
(* 1/TicksPerSecond second.                                                *)
(***************************************************************************)
EXTENDS Integers, Sequences, FiniteSets, TLC

\* ---------------------------------------------------------------- constants
RING_SIZE == 8
TARGET_FILL == RING_SIZE \div 2
DefaultFps == 16
TicksPerSecond == DefaultFps

\* ------------------------------------------------------------------- bounds
MaxTime == 2        \* largest clock reading (ticks) passed to the main thread
\* frames the decoder hands out before the model stops it: enough to refill
\* the ring after every claim that MaxTime allows
MaxFrames == RING_SIZE + MaxTime
MaxThreads == 2     \* thread objects alive at once
MaxReloadFrames == 2  \* frames decoded so far when a manifest reload may still be made
MaxComponents == 2   \* component types, one storage each
MaxEntity == 2       \* largest EntityID handed to a storage
MaxComponentId == 2  \* distinct component values passed to Add

Slots == 0 .. (RING_SIZE - 1)
Threads == 1 .. MaxThreads
Times == 0 .. MaxTime
NoSlot == -1
NoThread == 0
NoTime == -1
Components == 1 .. MaxComponents
Entities == 0 .. MaxEntity
ComponentIds == 1 .. MaxComponentId
NoComponent == 0
\* SparseSet::INVALID_INDEX (UINT32_MAX): the entry of an absent entity, never
\* a position of dense
INVALID_INDEX == -1

VARIABLES
    writeIdx,       \* FrameLoaderState::writeIdx
    readIdx,        \* FrameLoaderState::readIdx
    ready,          \* FrameSlot::ready, per slot
    pool,           \* framePool: id of the frame each buffer holds (0: none)
    framePtr,       \* slot whose frame the renderer was handed (NoSlot: null)
    frameReady,     \* FrameLoaderState::frameReady
    nextReadTime,   \* FrameLoaderState::nextReadTime, in ticks
    fps,            \* FrameLoaderComponent::fps
    writerRunning,  \* FrameLoaderComponent::writerRunning
    looping,        \* FrameLoaderComponent::looping
    writerThread,   \* thread the std::thread handle owns (NoThread: not joinable)
    ppc,            \* per thread: position inside WriterLoop
    pslot,          \* per thread: local `slot`
    pi,             \* per thread: local `i`
    ptoFetch,       \* per thread: local `toFetch`
    nextId,         \* frames decoded so far (identity of the next frame)
    mpc,            \* main thread: position
    phase,          \* "live", "shutdown", "destroyed", "terminated"
    cslot,          \* main thread: local `currentReadSlot`
    nowSeconds,     \* latest steady_clock reading of the main thread, in ticks
    ret,            \* result of the main thread's last completed call
    published,      \* history: frame ids in the order ready was set
    claimed,        \* history: frame ids in the order they were handed out
    watchSlot,      \* history: slot of the oldest claim whose buffer the writer
                    \* has not decoded into again (NoSlot: none)
    watchPub,       \* history: Len(published) when that claim's call returned
    lastClaimNow,   \* history: nowSeconds of the last call that returned true
                    \* (NoTime: none yet)
    sparse,         \* per storage: SparseSet::sparse (entry e at position e + 1)
    dense,          \* per storage: SparseSet::dense
    data,           \* per storage: SparseSet::data (ids of the components held)
    added,          \* history, per storage: the component last added for an entity
    ecsState        \* "ok"; "aborted" after a failed assert; "undefined" after
                    \* undefined behaviour in a build without asserts

vars == << writeIdx, readIdx, ready, pool, framePtr, frameReady, nextReadTime,
           fps, writerRunning, looping, writerThread, ppc, pslot, pi, ptoFetch,
           nextId, mpc, phase, cslot, nowSeconds, ret, published, claimed,
           watchSlot, watchPub, lastClaimNow, sparse, dense, data, added,
           ecsState >>

\* the frame pipeline, and the component storages of the ECS
pipeVars == << writeIdx, readIdx, ready, pool, framePtr, frameReady,
               nextReadTime, fps, writerRunning, looping, writerThread, ppc,
               pslot, pi, ptoFetch, nextId, mpc, phase, cslot, nowSeconds, ret,
               published, claimed, watchSlot, watchPub, lastClaimNow >>
ecsVars == << sparse, dense, data, added, ecsState >>

ringVars == << writeIdx, readIdx, ready, pool >>
prodLocals == << pslot, pi, ptoFetch >>
mainLocals == << cslot, nowSeconds >>
histVars == << published, claimed, watchSlot, watchPub, lastClaimNow >>

\* C++ operator % on ints (truncates toward zero)
CMod(a, b) == IF a >= 0 THEN a % b ELSE -((-a) % b)

Min(a, b) == IF a <= b THEN a ELSE b

\* mutant: no slot is kept empty
FreeSlotsOf_NoReserve(w, r) ==
    LET usedSlots == CMod(w - r + RING_SIZE, RING_SIZE)
    IN  RING_SIZE - usedSlots

\* mutant: the used count is taken without the + RING_SIZE bias
FreeSlotsOf_NoBias(w, r) ==
    LET usedSlots == CMod(w - r, RING_SIZE)
    IN  RING_SIZE - usedSlots - 1

\* FrameLoaderSystem::ComputeFreeSlots on given index values
FreeSlotsOf(w, r) ==
    LET usedSlots == CMod(w - r + RING_SIZE, RING_SIZE)
    IN  RING_SIZE - usedSlots - 1

ComputeFreeSlots == FreeSlotsOf(writeIdx, readIdx)

\* mutant: the read index skips a slot
NextReadIdx_Skip(slot) == CMod(slot + 2, RING_SIZE)

\* index stores of WriterLoop and SwapNextFrame
\* the write index advanced without the wrap
NextWriteIdx_NoWrap(slot) == slot + 1
NextWriteIdx(slot) == CMod(slot + 1, RING_SIZE)
NextReadIdx(slot) == CMod(slot + 1, RING_SIZE)

\* an invalid rate replaced by 30 frames per second
LocalFps_ClampTo30(f) == IF f <= 0 THEN 30 ELSE f

\* SwapNextFrame: localFps clamp and period, in ticks
LocalFps(f) == IF f <= 0 THEN 1 ELSE f
\* mutant: half the period
Period_Half(f) == TicksPerSecond \div (2 * LocalFps(f))

Period(f) == TicksPerSecond \div LocalFps(f)

Running(t) == ppc[t] \notin {"none", "p_done"}
Alive == phase \in {"live", "shutdown"}

\* the state after construction, with the component's `looping` field as
\* configured
InitWith(l) ==
    /\ writeIdx = 0
    /\ readIdx = 0
    /\ ready = [s \in Slots |-> FALSE]
    /\ pool = [s \in Slots |-> 0]
    /\ framePtr = NoSlot
    /\ frameReady = FALSE
    /\ nextReadTime = 0
    /\ fps = DefaultFps
    /\ writerRunning = FALSE
    /\ looping = l
    /\ writerThread = NoThread
    /\ ppc = [t \in Threads |-> "none"]
    /\ pslot = [t \in Threads |-> 0]
    /\ pi = [t \in Threads |-> 0]
    /\ ptoFetch = [t \in Threads |-> 0]
    /\ nextId = 0
    /\ mpc = "m_boot"
    /\ phase = "live"
    /\ cslot = 0
    /\ nowSeconds = 0
    /\ ret = "none"
    /\ published = << >>
    /\ claimed = << >>
    /\ watchSlot = NoSlot
    /\ watchPub = 0
    /\ lastClaimNow = NoTime
    /\ sparse = [c \in Components |-> << >>]
    /\ dense = [c \in Components |-> << >>]
    /\ data = [c \in Components |-> << >>]
    /\ added = [c \in Components |-> [e \in Entities |-> NoComponent]]
    /\ ecsState = "ok"

\* FrameLoaderComponent::looping{true}: nothing in the application stores to it
Init == InitWith(TRUE)

\* a component built with either value of `looping`
InitCfg == \E l \in BOOLEAN : InitWith(l)

\* ------------------------------------------------------------ writer thread
\* mutant: a failed demuxer.init returns without clearing the running flag
P_Download_NoClear(t, ok) ==
    /\ Alive /\ ppc[t] = "p_download"
    /\ ppc' = [ppc EXCEPT ![t] = IF ok THEN "p_while" ELSE "p_done"]
    /\ UNCHANGED << ringVars, framePtr, frameReady, nextReadTime, fps,
                    writerRunning, looping, ecsVars, writerThread, prodLocals, nextId,
                    mpc, phase, mainLocals, ret, histVars >>

\* a successful init entering the loop body without the while test
P_Download_EntersLoop(t, ok) ==
    /\ Alive /\ ppc[t] = "p_download"
    /\ IF ok
         THEN /\ ppc' = [ppc EXCEPT ![t] = "p_slot"]
              /\ UNCHANGED writerRunning
         ELSE /\ writerRunning' = FALSE
              /\ ppc' = [ppc EXCEPT ![t] = "p_done"]
    /\ UNCHANGED << ringVars, framePtr, frameReady, nextReadTime, fps, looping, ecsVars,
                    writerThread, prodLocals, nextId, mpc, phase, mainLocals,
                    ret, histVars >>

\* WriterLoop, lines 259-269: download the blob, then demuxer.init
P_Download(t, ok) ==
    /\ Alive /\ ppc[t] = "p_download"
    /\ IF ok
         THEN /\ ppc' = [ppc EXCEPT ![t] = "p_while"]
              /\ UNCHANGED writerRunning
         ELSE /\ writerRunning' = FALSE
              /\ ppc' = [ppc EXCEPT ![t] = "p_done"]
    /\ UNCHANGED << ringVars, framePtr, frameReady, nextReadTime, fps, looping, ecsVars,
                    writerThread, prodLocals, nextId, mpc, phase, mainLocals,
                    ret, histVars >>

\* the while condition also reading looping
P_While_ChecksLooping(t) ==
    /\ Alive /\ ppc[t] = "p_while"
    /\ ppc' = [ppc EXCEPT ![t] =
                 IF writerRunning /\ looping THEN "p_wait" ELSE "p_done"]
    /\ UNCHANGED << ringVars, framePtr, frameReady, nextReadTime, fps,
                    writerRunning, looping, ecsVars, writerThread, prodLocals, nextId,
                    mpc, phase, mainLocals, ret, histVars >>

\* line 271: while (writerRunning.load())
P_While(t) ==
    /\ Alive /\ ppc[t] = "p_while"
    /\ ppc' = [ppc EXCEPT ![t] = IF writerRunning THEN "p_wait" ELSE "p_done"]
    /\ UNCHANGED << ringVars, framePtr, frameReady, nextReadTime, fps,
                    writerRunning, looping, ecsVars, writerThread, prodLocals, nextId,
                    mpc, phase, mainLocals, ret, histVars >>

\* mutant: the wait has no timeout and its predicate looks at free slots only
P_Wait_FreeSlotOnly(t) ==
    /\ Alive /\ ppc[t] = "p_wait"
    /\ ComputeFreeSlots > 0
    /\ ppc' = [ppc EXCEPT ![t] = "p_chk"]
    /\ UNCHANGED << ringVars, framePtr, frameReady, nextReadTime, fps,
                    writerRunning, looping, ecsVars, writerThread, prodLocals, nextId,
                    mpc, phase, mainLocals, ret, histVars >>

\* lines 273-278: writerCv.wait_for(lk, 10ms, pred) returns when the predicate
\* holds or when the timeout expires, so it always returns
P_Wait(t) ==
    /\ Alive /\ ppc[t] = "p_wait"
    /\ ppc' = [ppc EXCEPT ![t] = "p_chk"]
    /\ UNCHANGED << ringVars, framePtr, frameReady, nextReadTime, fps,
                    writerRunning, looping, ecsVars, writerThread, prodLocals, nextId,
                    mpc, phase, mainLocals, ret, histVars >>

\* line 279: if (!writerRunning.load()) break;
P_Chk(t) ==
    /\ Alive /\ ppc[t] = "p_chk"
    /\ ppc' = [ppc EXCEPT ![t] = IF writerRunning THEN "p_free" ELSE "p_done"]
    /\ UNCHANGED << ringVars, framePtr, frameReady, nextReadTime, fps,
                    writerRunning, looping, ecsVars, writerThread, prodLocals, nextId,
                    mpc, phase, mainLocals, ret, histVars >>

\* a full ring taken as an error: the writer leaves WriterLoop
P_Free_FullRingStops(t) ==
    /\ Alive /\ ppc[t] = "p_free"
    /\ LET freeSlots == ComputeFreeSlots
       IN  IF freeSlots = 0
             THEN /\ ppc' = [ppc EXCEPT ![t] = "p_done"]
                  /\ UNCHANGED << pi, ptoFetch >>
             ELSE /\ ptoFetch' = [ptoFetch EXCEPT ![t] = Min(freeSlots, TARGET_FILL)]
                  /\ pi' = [pi EXCEPT ![t] = 0]
                  /\ ppc' = [ppc EXCEPT ![t] = "p_for"]
    /\ UNCHANGED << ringVars, framePtr, frameReady, nextReadTime, fps,
                    writerRunning, looping, ecsVars, writerThread, pslot, nextId,
                    mpc, phase, mainLocals, ret, histVars >>

\* lines 282-290: re-check free slots, compute toFetch, enter the for loop
P_Free(t) ==
    /\ Alive /\ ppc[t] = "p_free"
    /\ LET freeSlots == ComputeFreeSlots
       IN  IF freeSlots = 0
             THEN /\ ppc' = [ppc EXCEPT ![t] = "p_while"]
                  /\ UNCHANGED << pi, ptoFetch >>
             ELSE /\ ptoFetch' = [ptoFetch EXCEPT ![t] = Min(freeSlots, TARGET_FILL)]
                  /\ pi' = [pi EXCEPT ![t] = 0]
                  /\ ppc' = [ppc EXCEPT ![t] = "p_for"]
    /\ UNCHANGED << ringVars, framePtr, frameReady, nextReadTime, fps,
                    writerRunning, looping, ecsVars, writerThread, pslot, nextId,
                    mpc, phase, mainLocals, ret, histVars >>

\* mutant: the for loop does not look at the running flag
P_For_IgnoreRunning(t) ==
    /\ Alive /\ ppc[t] = "p_for"
    /\ ppc' = [ppc EXCEPT ![t] = IF pi[t] < ptoFetch[t] THEN "p_slot" ELSE "p_while"]
    /\ UNCHANGED << ringVars, framePtr, frameReady, nextReadTime, fps,
                    writerRunning, looping, ecsVars, writerThread, prodLocals, nextId,
                    mpc, phase, mainLocals, ret, histVars >>

\* line 292: for (...; i < toFetch && writerRunning.load(); ...)
P_For(t) ==
    /\ Alive /\ ppc[t] = "p_for"
    /\ ppc' = [ppc EXCEPT ![t] =
                 IF pi[t] < ptoFetch[t] /\ writerRunning THEN "p_slot" ELSE "p_while"]
    /\ UNCHANGED << ringVars, framePtr, frameReady, nextReadTime, fps,
                    writerRunning, looping, ecsVars, writerThread, prodLocals, nextId,
                    mpc, phase, mainLocals, ret, histVars >>

\* lines 294-298: freeSlots again, then slot = writeIdx.load()
P_Slot(t) ==
    /\ Alive /\ ppc[t] = "p_slot"
    /\ IF ComputeFreeSlots = 0
         THEN /\ ppc' = [ppc EXCEPT ![t] = "p_while"]
              /\ UNCHANGED pslot
         ELSE /\ pslot' = [pslot EXCEPT ![t] = writeIdx]
              /\ ppc' = [ppc EXCEPT ![t] = "p_rdy"]
    /\ UNCHANGED << ringVars, framePtr, frameReady, nextReadTime, fps,
                    writerRunning, looping, ecsVars, writerThread, pi, ptoFetch, nextId,
                    mpc, phase, mainLocals, ret, histVars >>

\* mutant: the slot is marked ready before the frame is decoded into it
P_Rdy_ReadyBeforeDecode(t) ==
    /\ Alive /\ ppc[t] = "p_rdy"
    /\ IF ~ready[pslot[t]]
         THEN /\ ppc' = [ppc EXCEPT ![t] = "p_decode"]
              /\ ready' = [ready EXCEPT ![pslot[t]] = TRUE]
              /\ UNCHANGED pi
         ELSE /\ pi' = [pi EXCEPT ![t] = @ + 1]
              /\ ppc' = [ppc EXCEPT ![t] = "p_for"]
              /\ UNCHANGED ready
    /\ UNCHANGED << writeIdx, readIdx, pool, framePtr, frameReady, nextReadTime,
                    fps, writerRunning, looping, ecsVars, writerThread, pslot, ptoFetch,
                    nextId, mpc, phase, mainLocals, ret, histVars >>

\* lines 301-306 and 333-337: only a slot that is not ready is decoded into;
\* a ready slot is skipped after a 1 ms sleep.  From "p_decode" on the call
\* decode_next_frame(*(s.frame)) is in progress on slot pslot[t].
P_Rdy(t) ==
    /\ Alive /\ ppc[t] = "p_rdy"
    /\ IF ~ready[pslot[t]]
         THEN /\ ppc' = [ppc EXCEPT ![t] = "p_decode"]
              /\ UNCHANGED pi
         ELSE /\ pi' = [pi EXCEPT ![t] = @ + 1]
              /\ ppc' = [ppc EXCEPT ![t] = "p_for"]
    /\ UNCHANGED << ringVars, framePtr, frameReady, nextReadTime, fps,
                    writerRunning, looping, ecsVars, writerThread, pslot, ptoFetch, nextId,
                    mpc, phase, mainLocals, ret, histVars >>

\* line 306: decode_next_frame returns true with the buffer filled
P_DecodeFrame(t) ==
    /\ Alive /\ ppc[t] = "p_decode"
    /\ nextId < MaxFrames
    /\ nextId' = nextId + 1
    /\ pool' = [pool EXCEPT ![pslot[t]] = nextId + 1]
    /\ ppc' = [ppc EXCEPT ![t] = "p_pub"]
    /\ UNCHANGED << writeIdx, readIdx, ready, framePtr, frameReady, nextReadTime,
                    fps, writerRunning, looping, ecsVars, writerThread, prodLocals,
                    mpc, phase, mainLocals, ret, histVars >>

\* line 306: decode_next_frame returns false (end of stream), buffer untouched
P_DecodeEos(t) ==
    /\ Alive /\ ppc[t] = "p_decode"
    /\ ppc' = [ppc EXCEPT ![t] = "p_loop"]
    /\ UNCHANGED << ringVars, framePtr, frameReady, nextReadTime, fps,
                    writerRunning, looping, ecsVars, writerThread, prodLocals, nextId,
                    mpc, phase, mainLocals, ret, histVars >>

\* line 306: decode_next_frame throws std::runtime_error on any error that is
\* not end of stream (TDGenPlayerApp.h, throw_if_ffmpeg_err and the dav1d
\* checks).  WriterLoop has no handler, so the exception leaves the thread
\* function and std::terminate ends the process.
P_DecodeThrow(t) ==
    /\ Alive /\ ppc[t] = "p_decode"
    /\ ppc' = [ppc EXCEPT ![t] = "p_throw"]
    /\ phase' = "terminated"
    /\ UNCHANGED << ringVars, framePtr, frameReady, nextReadTime, fps,
                    writerRunning, looping, ecsVars, writerThread, prodLocals, nextId,
                    mpc, mainLocals, ret, histVars >>

\* mutant: end of stream with looping off leaves the for loop but does not
\* clear the running flag
P_Loop_BreakOnly(t) ==
    /\ Alive /\ ppc[t] = "p_loop"
    /\ ppc' = [ppc EXCEPT ![t] = IF ~looping THEN "p_while" ELSE "p_seek"]
    /\ UNCHANGED << ringVars, framePtr, frameReady, nextReadTime, fps,
                    writerRunning, looping, ecsVars, writerThread, prodLocals, nextId,
                    mpc, phase, mainLocals, ret, histVars >>

\* lines 310-314: looping off: store writerRunning = false and break
P_Loop(t) ==
    /\ Alive /\ ppc[t] = "p_loop"
    /\ IF ~looping
         THEN /\ writerRunning' = FALSE
              /\ ppc' = [ppc EXCEPT ![t] = "p_while"]
         ELSE /\ ppc' = [ppc EXCEPT ![t] = "p_seek"]
              /\ UNCHANGED writerRunning
    /\ UNCHANGED << ringVars, framePtr, frameReady, nextReadTime, fps, looping, ecsVars,
                    writerThread, prodLocals, nextId, mpc, phase, mainLocals,
                    ret, histVars >>

\* mutant: a failed seek leaves the for loop but does not clear the running flag
P_Seek_FailKeepsRunning(t, ok) ==
    /\ Alive /\ ppc[t] = "p_seek"
    /\ IF ok
         THEN /\ pi' = [pi EXCEPT ![t] = @ + 1]
              /\ ppc' = [ppc EXCEPT ![t] = "p_for"]
         ELSE /\ ppc' = [ppc EXCEPT ![t] = "p_while"]
              /\ UNCHANGED pi
    /\ UNCHANGED << ringVars, framePtr, frameReady, nextReadTime, fps,
                    writerRunning, looping, ecsVars, writerThread, pslot, ptoFetch,
                    nextId, mpc, phase, mainLocals, ret, histVars >>

\* mutant: a successful seek also moves the write index on
P_Seek_SkipSlot(t, ok) ==
    /\ Alive /\ ppc[t] = "p_seek"
    /\ IF ok
         THEN /\ pi' = [pi EXCEPT ![t] = @ + 1]
              /\ ppc' = [ppc EXCEPT ![t] = "p_for"]
              /\ writeIdx' = NextWriteIdx(pslot[t])
              /\ UNCHANGED writerRunning
         ELSE /\ writerRunning' = FALSE
              /\ ppc' = [ppc EXCEPT ![t] = "p_while"]
              /\ UNCHANGED << pi, writeIdx >>
    /\ UNCHANGED << readIdx, ready, pool, framePtr, frameReady, nextReadTime,
                    fps, looping, ecsVars, writerThread, pslot, ptoFetch, nextId, mpc,
                    phase, mainLocals, ret, histVars >>

\* lines 317-323: seek_to_start; failure stops the writer, success continues
\* the for loop (++i) without publishing
P_Seek(t, ok) ==
    /\ Alive /\ ppc[t] = "p_seek"
    /\ IF ok
         THEN /\ pi' = [pi EXCEPT ![t] = @ + 1]
              /\ ppc' = [ppc EXCEPT ![t] = "p_for"]
              /\ UNCHANGED writerRunning
         ELSE /\ writerRunning' = FALSE
              /\ ppc' = [ppc EXCEPT ![t] = "p_while"]
              /\ UNCHANGED pi
    /\ UNCHANGED << ringVars, framePtr, frameReady, nextReadTime, fps, looping, ecsVars,
                    writerThread, pslot, ptoFetch, nextId, mpc, phase,
                    mainLocals, ret, histVars >>

\* line 329: s.ready.store(true)
P_Pub(t) ==
    /\ Alive /\ ppc[t] = "p_pub"
    /\ ready' = [ready EXCEPT ![pslot[t]] = TRUE]
    /\ published' = Append(published, pool[pslot[t]])
    /\ IF pslot[t] = watchSlot
         THEN watchSlot' = NoSlot /\ watchPub' = 0
         ELSE UNCHANGED << watchSlot, watchPub >>
    /\ ppc' = [ppc EXCEPT ![t] = "p_adv"]
    /\ UNCHANGED << writeIdx, readIdx, pool, framePtr, frameReady, nextReadTime,
                    fps, writerRunning, looping, ecsVars, writerThread, prodLocals, nextId,
                    mpc, phase, mainLocals, ret, claimed, lastClaimNow >>

\* line 332: writeIdx.store((slot + 1) % RING_SIZE), then ++i
P_Adv(t) ==
    /\ Alive /\ ppc[t] = "p_adv"
    /\ writeIdx' = NextWriteIdx(pslot[t])
    /\ pi' = [pi EXCEPT ![t] = @ + 1]
    /\ ppc' = [ppc EXCEPT ![t] = "p_for"]
    /\ UNCHANGED << readIdx, ready, pool, framePtr, frameReady, nextReadTime,
                    fps, writerRunning, looping, ecsVars, writerThread, pslot, ptoFetch,
                    nextId, mpc, phase, mainLocals, ret, histVars >>

WriterLoop(t) ==
    \/ \E ok \in BOOLEAN : P_Download(t, ok)
    \/ P_While(t)
    \/ P_Wait(t)
    \/ P_Chk(t)
    \/ P_Free(t)
    \/ P_For(t)
    \/ P_Slot(t)
    \/ P_Rdy(t)
    \/ P_DecodeFrame(t)
    \/ P_DecodeEos(t)
    \/ P_DecodeThrow(t)
    \/ P_Loop(t)
    \/ \E ok \in BOOLEAN : P_Seek(t, ok)
    \/ P_Pub(t)
    \/ P_Adv(t)

\* -------------------------------------------------------------- main thread
\* fps values a manifest may carry
ManifestFps == {DefaultFps, DefaultFps \div 2}

\* the least thread object not in use
FreeThread == CHOOSE t \in Threads : ppc[t] = "none" /\ \A u \in Threads : ppc[u] = "none" => t <= u

\* what a call of StartBackgroundWriter or StopBackgroundWriter returns to
AfterStop == IF phase = "shutdown" THEN "m_stopped" ELSE "m_idle"

\* LoadManifest also callable between two frames of a running pipeline
LoadManifest_AnyTime(ok, f, now) ==
    /\ phase = "live" /\ mpc \in {"m_boot", "m_idle"}
    /\ now >= nowSeconds
    /\ IF ok
         THEN /\ fps' = f
              /\ writeIdx' = 0
              /\ readIdx' = 0
              /\ nextReadTime' = now
              /\ nowSeconds' = now
              /\ ret' = "manifest_ok"
         ELSE /\ UNCHANGED << fps, writeIdx, readIdx, nextReadTime, nowSeconds >>
              /\ ret' = "manifest_fail"
    /\ mpc' = IF mpc = "m_boot" THEN "m_loaded" ELSE "m_idle"
    /\ UNCHANGED << ready, pool, framePtr, frameReady, writerRunning, looping, ecsVars,
                    writerThread, ppc, prodLocals, nextId, phase, cslot,
                    histVars >>

\* FrameLoaderSystem::Init, lines 90-93: LoadManifest.  A failed GET or parse
\* returns before the fields and indices are touched.
LoadManifest(ok, f, now) ==
    /\ phase = "live" /\ mpc = "m_boot"
    /\ now >= nowSeconds
    /\ IF ok
         THEN /\ fps' = f
              /\ writeIdx' = 0
              /\ readIdx' = 0
              /\ nextReadTime' = now
              /\ nowSeconds' = now
              /\ ret' = "manifest_ok"
         ELSE /\ UNCHANGED << fps, writeIdx, readIdx, nextReadTime, nowSeconds >>
              /\ ret' = "manifest_fail"
    /\ mpc' = "m_loaded"
    /\ UNCHANGED << ready, pool, framePtr, frameReady, writerRunning, looping, ecsVars,
                    writerThread, ppc, prodLocals, nextId, phase, cslot,
                    histVars >>

\* Init, line 94 (and AppInit of the FrameLoader class): StartBackgroundWriter
InitStart ==
    /\ phase = "live" /\ mpc = "m_loaded"
    /\ mpc' = "st_cas"
    /\ UNCHANGED << ringVars, framePtr, frameReady, nextReadTime, fps,
                    writerRunning, looping, ecsVars, writerThread, ppc, prodLocals, nextId,
                    phase, mainLocals, ret, histVars >>

\* AppInit of the FrameLoader class returns false when the manifest failed:
\* the writer is never started and the loader is torn down
InitAbort ==
    /\ phase = "live" /\ mpc = "m_loaded" /\ ret = "manifest_fail"
    /\ phase' = "shutdown"
    /\ mpc' = "sp_cas"
    /\ UNCHANGED << ringVars, framePtr, frameReady, nextReadTime, fps,
                    writerRunning, looping, ecsVars, writerThread, ppc, prodLocals, nextId,
                    mainLocals, ret, histVars >>

\* StartBackgroundWriter, lines 219-220: compare_exchange_strong(false, true)
St_Cas ==
    /\ Alive /\ mpc = "st_cas"
    /\ IF ~writerRunning
         THEN /\ writerRunning' = TRUE
              /\ mpc' = "st_spawn"
              /\ UNCHANGED ret
         ELSE /\ mpc' = "m_idle"
              /\ ret' = "start"
              /\ UNCHANGED writerRunning
    /\ UNCHANGED << ringVars, framePtr, frameReady, nextReadTime, fps, looping, ecsVars,
                    writerThread, ppc, prodLocals, nextId, phase, mainLocals,
                    histVars >>

\* line 221: writerThread = std::thread(&WriterLoop, ...).  The constructor
\* starts the thread; the move assignment then calls std::terminate when the
\* handle assigned to is still joinable.
St_Spawn ==
    /\ Alive /\ mpc = "st_spawn"
    /\ \E t \in Threads : ppc[t] = "none"
    /\ LET t == FreeThread
       IN  /\ ppc' = [ppc EXCEPT ![t] = "p_download"]
           /\ pslot' = [pslot EXCEPT ![t] = 0]
           /\ pi' = [pi EXCEPT ![t] = 0]
           /\ ptoFetch' = [ptoFetch EXCEPT ![t] = 0]
           /\ IF writerThread # NoThread
                THEN /\ phase' = "terminated"
                     /\ mpc' = "m_end"
                     /\ UNCHANGED << writerThread, ret >>
                ELSE /\ writerThread' = t
                     /\ mpc' = "m_idle"
                     /\ ret' = "start"
                     /\ UNCHANGED phase
    /\ UNCHANGED << ringVars, framePtr, frameReady, nextReadTime, fps,
                    writerRunning, looping, ecsVars, nextId, mainLocals, histVars >>

\* mutant: the call does not compare now with nextReadTime before claiming
Sw_Time_NoGate(now) ==
    /\ phase = "live" /\ mpc = "m_idle"
    /\ now >= nowSeconds
    /\ nowSeconds' = now
    /\ LET period == Period(fps)
       IN  /\ nextReadTime' = IF nextReadTime + period <= now
                                 THEN now + period
                                 ELSE nextReadTime + period
           /\ mpc' = "sw_load"
           /\ UNCHANGED ret
    /\ UNCHANGED << ringVars, framePtr, frameReady, fps, writerRunning, looping, ecsVars,
                    writerThread, ppc, prodLocals, nextId, phase, cslot,
                    histVars >>

\* mutant: the schedule is not reset after the caller fell behind
Sw_Time_NoCatchUp(now) ==
    /\ phase = "live" /\ mpc = "m_idle"
    /\ now >= nowSeconds
    /\ nowSeconds' = now
    /\ LET period == Period(fps)
       IN  IF now < nextReadTime
             THEN /\ ret' = "swap_early"
                  /\ mpc' = "r_upd"
                  /\ UNCHANGED nextReadTime
             ELSE /\ nextReadTime' = nextReadTime + period
                  /\ mpc' = "sw_load"
                  /\ UNCHANGED ret
    /\ UNCHANGED << ringVars, framePtr, frameReady, fps, writerRunning, looping, ecsVars,
                    writerThread, ppc, prodLocals, nextId, phase, cslot,
                    histVars >>

\* SwapNextFrame, lines 464-479: the timing block under timingMutex
Sw_Time(now) ==
    /\ phase = "live" /\ mpc = "m_idle"
    /\ now >= nowSeconds
    /\ nowSeconds' = now
    /\ LET period == Period(fps)
       IN  IF now < nextReadTime
             THEN /\ ret' = "swap_early"
                  /\ mpc' = "r_upd"
                  /\ UNCHANGED nextReadTime
             ELSE /\ nextReadTime' = IF nextReadTime + period <= now
                                       THEN now + period
                                       ELSE nextReadTime + period
                  /\ mpc' = "sw_load"
                  /\ UNCHANGED ret
    /\ UNCHANGED << ringVars, framePtr, frameReady, fps, writerRunning, looping, ecsVars,
                    writerThread, ppc, prodLocals, nextId, phase, cslot,
                    histVars >>

\* Sw_Load with the schedule rolled back when the slot is not ready
Sw_Load_RetrySameTime ==
    /\ Alive /\ mpc = "sw_load"
    /\ cslot' = readIdx
    /\ IF ~ready[readIdx]
         THEN /\ ret' = "swap_empty"
              /\ mpc' = "r_upd"
              /\ nextReadTime' = nowSeconds
         ELSE /\ mpc' = "sw_out"
              /\ UNCHANGED << ret, nextReadTime >>
    /\ UNCHANGED << ringVars, framePtr, frameReady, fps,
                    writerRunning, looping, ecsVars, writerThread, ppc, prodLocals, nextId,
                    phase, nowSeconds, histVars >>

\* Sw_Load blocking until the slot at readIdx is ready
Sw_Load_WaitsForFrame ==
    /\ Alive /\ mpc = "sw_load"
    /\ ready[readIdx]
    /\ cslot' = readIdx
    /\ mpc' = "sw_out"
    /\ UNCHANGED << ringVars, framePtr, frameReady, nextReadTime, fps,
                    writerRunning, looping, ecsVars, writerThread, ppc, prodLocals, nextId,
                    phase, nowSeconds, ret, histVars >>

\* lines 482-486: currentReadSlot = readIdx.load(); the slot's ready.load()
Sw_Load ==
    /\ Alive /\ mpc = "sw_load"
    /\ cslot' = readIdx
    /\ IF ~ready[readIdx]
         THEN /\ ret' = "swap_empty"
              /\ mpc' = "r_upd"
         ELSE /\ mpc' = "sw_out"
              /\ UNCHANGED ret
    /\ UNCHANGED << ringVars, framePtr, frameReady, nextReadTime, fps,
                    writerRunning, looping, ecsVars, writerThread, ppc, prodLocals, nextId,
                    phase, nowSeconds, histVars >>

\* Sw_Out storing readIdx before the ready flag is cleared
Sw_Out_AdvancesFirst ==
    /\ Alive /\ mpc = "sw_out"
    /\ framePtr' = cslot
    /\ frameReady' = TRUE
    /\ claimed' = Append(claimed, pool[cslot])
    /\ readIdx' = NextReadIdx(cslot)
    /\ mpc' = "sw_clr"
    /\ UNCHANGED << writeIdx, ready, pool, nextReadTime, fps, writerRunning,
                    looping, ecsVars, writerThread, ppc, prodLocals, nextId, phase,
                    mainLocals, ret, published, watchSlot, watchPub,
                    lastClaimNow >>

\* lines 490-491: framePtr = &ring[currentReadSlot].frame; frameReady = true
Sw_Out ==
    /\ Alive /\ mpc = "sw_out"
    /\ framePtr' = cslot
    /\ frameReady' = TRUE
    /\ claimed' = Append(claimed, pool[cslot])
    /\ mpc' = "sw_clr"
    /\ UNCHANGED << ringVars, nextReadTime, fps, writerRunning, looping, ecsVars,
                    writerThread, ppc, prodLocals, nextId, phase, mainLocals,
                    ret, published, watchSlot, watchPub, lastClaimNow >>

\* Sw_Clr clearing the flag of the slot after the claimed one
Sw_Clr_WrongSlot ==
    /\ Alive /\ mpc = "sw_clr"
    /\ ready' = [ready EXCEPT ![NextReadIdx(cslot)] = FALSE]
    /\ mpc' = "sw_adv"
    /\ UNCHANGED << writeIdx, readIdx, pool, framePtr, frameReady, nextReadTime,
                    fps, writerRunning, looping, ecsVars, writerThread, ppc, prodLocals,
                    nextId, phase, mainLocals, ret, histVars >>

\* line 495: ring[currentReadSlot].ready.store(false)
Sw_Clr ==
    /\ Alive /\ mpc = "sw_clr"
    /\ ready' = [ready EXCEPT ![cslot] = FALSE]
    /\ mpc' = "sw_adv"
    /\ UNCHANGED << writeIdx, readIdx, pool, framePtr, frameReady, nextReadTime,
                    fps, writerRunning, looping, ecsVars, writerThread, ppc, prodLocals,
                    nextId, phase, mainLocals, ret, histVars >>

\* lines 496-502: readIdx.store((currentReadSlot + 1) % RING_SIZE),
\* writerCv.notify_one(), return true
Sw_Adv ==
    /\ Alive /\ mpc = "sw_adv"
    /\ readIdx' = NextReadIdx(cslot)
    /\ ret' = "swap_true"
    /\ mpc' = "r_upd"
    /\ IF watchSlot = NoSlot
         THEN watchSlot' = cslot /\ watchPub' = Len(published)
         ELSE UNCHANGED << watchSlot, watchPub >>
    /\ lastClaimNow' = nowSeconds
    /\ UNCHANGED << writeIdx, ready, pool, framePtr, frameReady, nextReadTime,
                    fps, writerRunning, looping, ecsVars, writerThread, ppc, prodLocals,
                    nextId, phase, mainLocals, published, claimed >>

\* UnlitGeometryRenderSystem::Update, line 270: frameReady.load(); when set,
\* UpdateTextures starts reading the frame framePtr refers to
R_Upd ==
    /\ Alive /\ mpc = "r_upd"
    /\ mpc' = IF frameReady THEN "r_read" ELSE "m_idle"
    /\ UNCHANGED << ringVars, framePtr, frameReady, nextReadTime, fps,
                    writerRunning, looping, ecsVars, writerThread, ppc, prodLocals, nextId,
                    phase, mainLocals, ret, histVars >>

\* lines 273-276: UpdateTextures returns; frameReady.store(false)
R_Read ==
    /\ Alive /\ mpc = "r_read"
    /\ frameReady' = FALSE
    /\ mpc' = "m_idle"
    /\ UNCHANGED << ringVars, framePtr, nextReadTime, fps, writerRunning,
                    looping, ecsVars, writerThread, ppc, prodLocals, nextId, phase,
                    mainLocals, ret, histVars >>

\* AppShutdown: FrameLoaderSystem::Shutdown calls StopBackgroundWriter
Shutdown ==
    /\ phase = "live" /\ mpc = "m_idle"
    /\ phase' = "shutdown"
    /\ mpc' = "sp_cas"
    /\ UNCHANGED << ringVars, framePtr, frameReady, nextReadTime, fps,
                    writerRunning, looping, ecsVars, writerThread, ppc, prodLocals, nextId,
                    mainLocals, ret, histVars >>

\* StopBackgroundWriter, lines 234-238: compare_exchange_strong(true, false);
\* when the flag was not true the call returns at once
Sp_Cas ==
    /\ Alive /\ mpc = "sp_cas"
    /\ IF writerRunning
         THEN /\ writerRunning' = FALSE
              /\ mpc' = "sp_join"
              /\ UNCHANGED ret
         ELSE /\ mpc' = AfterStop
              /\ ret' = "stop"
              /\ UNCHANGED writerRunning
    /\ UNCHANGED << ringVars, framePtr, frameReady, nextReadTime, fps, looping, ecsVars,
                    writerThread, ppc, prodLocals, nextId, phase, mainLocals,
                    histVars >>

\* lines 239-240: notify_all, then join the thread if the handle is joinable;
\* join returns once that thread has left WriterLoop
Sp_Join ==
    /\ Alive /\ mpc = "sp_join"
    /\ IF writerThread # NoThread
         THEN /\ ppc[writerThread] = "p_done"
              /\ ppc' = [ppc EXCEPT ![writerThread] = "none"]
              /\ writerThread' = NoThread
         ELSE UNCHANGED << ppc, writerThread >>
    /\ mpc' = AfterStop
    /\ ret' = "stop"
    /\ UNCHANGED << ringVars, framePtr, frameReady, nextReadTime, fps,
                    writerRunning, looping, ecsVars, prodLocals, nextId, phase,
                    mainLocals, histVars >>

\* entityManager_.reset() / ~FrameLoader: the members are destroyed; the
\* destructor of a joinable std::thread calls std::terminate
Destroy ==
    /\ phase = "shutdown" /\ mpc = "m_stopped"
    /\ phase' = IF writerThread # NoThread THEN "terminated" ELSE "destroyed"
    /\ mpc' = "m_end"
    /\ UNCHANGED << ringVars, framePtr, frameReady, nextReadTime, fps,
                    writerRunning, looping, ecsVars, writerThread, ppc, prodLocals, nextId,
                    mainLocals, ret, histVars >>

MainThread ==
    \/ \E ok \in BOOLEAN, f \in ManifestFps, now \in Times : LoadManifest(ok, f, now)
    \/ InitStart
    \/ InitAbort
    \/ St_Cas
    \/ St_Spawn
    \/ \E now \in Times : Sw_Time(now)
    \/ Sw_Load
    \/ Sw_Out
    \/ Sw_Clr
    \/ Sw_Adv
    \/ R_Upd
    \/ R_Read
    \/ Shutdown
    \/ Sp_Cas
    \/ Sp_Join
    \/ Destroy

\* The application as written: Init, then Update per frame, then AppShutdown
Next ==
    \/ MainThread
    \/ \E t \in Threads : WriterLoop(t)

Spec == Init /\ [][Next]_vars

\* ---------------------------------------------------------- other call orders
\* StartBackgroundWriter and StopBackgroundWriter are public members of the
\* FrameLoader class: a caller may invoke them between any two other calls
ApiStart ==
    /\ phase = "live" /\ mpc = "m_idle"
    /\ mpc' = "st_cas"
    /\ UNCHANGED << ringVars, framePtr, frameReady, nextReadTime, fps,
                    writerRunning, looping, ecsVars, writerThread, ppc, prodLocals, nextId,
                    phase, mainLocals, ret, histVars >>

ApiStop ==
    /\ phase = "live" /\ mpc = "m_idle"
    /\ mpc' = "sp_cas"
    /\ UNCHANGED << ringVars, framePtr, frameReady, nextReadTime, fps,
                    writerRunning, looping, ecsVars, writerThread, ppc, prodLocals, nextId,
                    phase, mainLocals, ret, histVars >>

NextApi ==
    \/ Next
    \/ ApiStart
    \/ ApiStop

SpecApi == Init /\ [][NextApi]_vars

\* SetFPS storing the rate without resetting the schedule
SetFPS_KeepsSchedule(newFps, now) ==
    /\ phase = "live" /\ mpc = "m_idle"
    /\ now >= nowSeconds
    /\ nowSeconds' = now
    /\ fps' = newFps
    /\ ret' = "set_fps"
    /\ UNCHANGED << ringVars, framePtr, frameReady, nextReadTime, writerRunning,
                    looping, ecsVars, writerThread, ppc, prodLocals, nextId, mpc, phase,
                    cslot, histVars >>

\* FrameLoaderSystem::SetFPS, lines 438-444: flC.fps = newFps, then under
\* timingMutex nextReadTime = steady_clock now
SetFPS(newFps, now) ==
    /\ phase = "live" /\ mpc = "m_idle"
    /\ now >= nowSeconds
    /\ nowSeconds' = now
    /\ fps' = newFps
    /\ nextReadTime' = now
    /\ ret' = "set_fps"
    /\ UNCHANGED << ringVars, framePtr, frameReady, writerRunning, looping, ecsVars,
                    writerThread, ppc, prodLocals, nextId, mpc, phase, cslot,
                    histVars >>

\* FrameLoaderComponent::looping is a public std::atomic<bool>: its owner may
\* store either value at any moment of the component's life
SetLooping(b) ==
    /\ phase = "live"
    /\ b # looping
    /\ looping' = b
    /\ UNCHANGED << ecsVars, ringVars, framePtr, frameReady, nextReadTime, fps,
                    writerRunning, writerThread, ppc, prodLocals, nextId, mpc,
                    phase, mainLocals, ret, histVars >>

\* The application with looping stored at arbitrary moments and with
\* StopBackgroundWriter called between two frames, ahead of the shutdown
NextCtl ==
    \/ Next
    \/ \E b \in BOOLEAN : SetLooping(b)
    \/ ApiStop

SpecCtl == Init /\ [][NextCtl]_vars

\* The running pipeline with a decoder that always delivers a frame: no
\* failure, no end of stream, no shutdown.  Both threads keep being scheduled.
FillMain ==
    \/ \E ok \in BOOLEAN, f \in ManifestFps, now \in Times : LoadManifest(ok, f, now)
    \/ InitStart
    \/ St_Cas
    \/ St_Spawn
    \/ \E now \in Times : Sw_Time(now)
    \/ Sw_Load
    \/ Sw_Out
    \/ Sw_Clr
    \/ Sw_Adv
    \/ R_Upd
    \/ R_Read

FillWriter(t) ==
    \/ P_Download(t, TRUE)
    \/ P_While(t)
    \/ P_Wait(t)
    \/ P_Chk(t)
    \/ P_Free(t)
    \/ P_For(t)
    \/ P_Slot(t)
    \/ P_Rdy(t)
    \/ P_DecodeFrame(t)
    \/ P_Pub(t)
    \/ P_Adv(t)

NextFill ==
    \/ FillMain
    \/ \E t \in Threads : FillWriter(t)

SpecFill ==
    /\ Init
    /\ [][NextFill]_vars
    /\ WF_vars(FillMain)
    /\ \A t \in Threads : WF_vars(FillWriter(t))

\* The running pipeline with the playback rate changed between two frames
NextFps ==
    \/ NextFill
    \/ \E f \in ManifestFps, now \in Times : SetFPS(f, now)

SpecFps == Init /\ [][NextFps]_vars

\* FrameLoader::LoadManifest (part_006 lines 52-110) called again on a stopped
\* pipeline: a public member, so a caller may reload the manifest after
\* StopBackgroundWriter has joined the writer.  The indices and nextReadTime
\* are reset; the ready flags and the frames in the pool are not touched.
\* The histories start again: they record the run that follows.  The model
\* reloads only while at most MaxReloadFrames frames have been decoded.
ApiReload(ok, f, now) ==
    /\ phase = "live" /\ mpc = "m_idle"
    /\ ~writerRunning /\ writerThread = NoThread
    /\ \A t \in Threads : ppc[t] = "none"
    /\ nextId <= MaxReloadFrames
    /\ now >= nowSeconds
    /\ IF ok
         THEN /\ fps' = f
              /\ writeIdx' = 0
              /\ readIdx' = 0
              /\ nextReadTime' = now
              /\ nowSeconds' = now
              /\ ret' = "manifest_ok"
              /\ published' = << >>
              /\ claimed' = << >>
              /\ watchSlot' = NoSlot
              /\ watchPub' = 0
              /\ lastClaimNow' = NoTime
         ELSE /\ ret' = "manifest_fail"
              /\ UNCHANGED << fps, writeIdx, readIdx, nextReadTime, nowSeconds,
                              histVars >>
    /\ UNCHANGED << ready, pool, framePtr, frameReady, writerRunning, looping, ecsVars,
                    writerThread, ppc, prodLocals, nextId, mpc, phase, cslot >>

\* The running pipeline stopped, reloaded and started again by its owner
NextRestart ==
    \/ NextFill
    \/ ApiStop
    \/ Sp_Cas
    \/ Sp_Join
    \/ \E ok \in BOOLEAN, f \in ManifestFps, now \in Times : ApiReload(ok, f, now)
    \/ ApiStart

SpecRestart == Init /\ [][NextRestart]_vars

\* rates a caller may pass to SetFPS: one frame per second and invalid ones
FpsInputs == {-1, 0, 1}

\* The running pipeline with SetFPS called with valid and invalid rates
NextRate ==
    \/ NextFill
    \/ \E f \in FpsInputs, now \in Times : SetFPS(f, now)

SpecRate == Init /\ [][NextRate]_vars

\* The application with `looping` configured either way, and with the main
\* thread and every started writer thread scheduled again and again
SpecLive ==
    /\ InitCfg
    /\ [][Next]_vars
    /\ WF_vars(MainThread)
    /\ \A t \in Threads : WF_vars(WriterLoop(t))

\* ------------------------------------------------------------------ helpers
NumReady == Cardinality({s \in Slots : ready[s]})
Decoding(t) == ppc[t] = "p_decode"
\* position of a frame id in the publication order (0: never published)
PubPos(id) ==
    IF \E j \in 1 .. Len(published) : published[j] = id
      THEN CHOOSE j \in 1 .. Len(published) : published[j] = id
      ELSE 0

\* ------------------------------------------------------- component storages
\* SparseSet::Has, line 56: e < sparse.size() && sparse[e] != INVALID_INDEX
Has(c, e) == e < Len(sparse[c]) /\ sparse[c][e + 1] # INVALID_INDEX

\* SparseSet::Get, line 60: data[sparse[e]]
Get(c, e) == data[c][sparse[c][e + 1] + 1]

\* std::vector::resize(n, INVALID_INDEX) as Add uses it: grows, never shrinks
Resize(sp, n) ==
    IF n > Len(sp) THEN sp \o [i \in 1 .. (n - Len(sp)) |-> INVALID_INDEX] ELSE sp

\* swap(v[i], v[j]) and pop_back, on positions counted from 0
Swap(v, i, j) == [v EXCEPT ![i + 1] = v[j + 1], ![j + 1] = v[i + 1]]
PopBack(v) == SubSeq(v, 1, Len(v) - 1)

\* Remove without the entry of the moved entity being brought up to date
RemoveSparse_NoFixup(sp, dn, e) == [sp EXCEPT ![e + 1] = INVALID_INDEX]

\* SparseSet::Remove, lines 41-53, on an entity that is present: the three
\* vectors after the call
RemoveSparse(sp, dn, e) ==
    LET denseIndex == sp[e + 1]
        lastEntity == dn[Len(dn)]
    IN  [[sp EXCEPT ![lastEntity + 1] = denseIndex] EXCEPT ![e + 1] = INVALID_INDEX]

RemoveDense(sp, dn, e) == PopBack(Swap(dn, sp[e + 1], Len(dn) - 1))
RemoveData(sp, dt, e) == PopBack(Swap(dt, sp[e + 1], Len(dt) - 1))

\* SparseSet::Add, lines 20-37 (ECS::AddComponent, line 25): nothing when the
\* entity is present; else sparse grows to e + 1 entries and e is appended
Add(c, e, v) ==
    /\ ecsState = "ok"
    /\ IF Has(c, e)
         THEN UNCHANGED << sparse, dense, data, added >>
         ELSE /\ sparse' = [sparse EXCEPT ![c] =
                              [Resize(@, e + 1) EXCEPT ![e + 1] = Len(dense[c])]]
              /\ dense' = [dense EXCEPT ![c] = Append(@, e)]
              /\ data' = [data EXCEPT ![c] = Append(@, v)]
              /\ added' = [added EXCEPT ![c][e] = v]
    /\ UNCHANGED << ecsState, pipeVars >>

\* SparseSet::Remove called as its assert requires, on an entity that is present
Remove(c, e) ==
    /\ ecsState = "ok"
    /\ Has(c, e)
    /\ sparse' = [sparse EXCEPT ![c] = RemoveSparse(sparse[c], dense[c], e)]
    /\ dense' = [dense EXCEPT ![c] = RemoveDense(sparse[c], dense[c], e)]
    /\ data' = [data EXCEPT ![c] = RemoveData(sparse[c], data[c], e)]
    /\ added' = [added EXCEPT ![c][e] = NoComponent]
    /\ UNCHANGED << ecsState, pipeVars >>

\* storages the ECS has created: GetOrCreateStorage ran for the type, here
\* through AddComponent
Storages == {c \in Components : Len(sparse[c]) > 0}

\* the storages with e removed from each storage of the set cs
SparseWithout(cs, e) ==
    [c \in Components |->
       IF c \in cs THEN RemoveSparse(sparse[c], dense[c], e) ELSE sparse[c]]
DenseWithout(cs, e) ==
    [c \in Components |->
       IF c \in cs THEN RemoveDense(sparse[c], dense[c], e) ELSE dense[c]]
DataWithout(cs, e) ==
    [c \in Components |->
       IF c \in cs THEN RemoveData(sparse[c], data[c], e) ELSE data[c]]
AddedWithout(cs, e) ==
    [c \in Components |->
       IF c \in cs THEN [added[c] EXCEPT ![e] = NoComponent] ELSE added[c]]

\* ECS::DestroyEntity, lines 18-21: RemoveEntity(e), that is Remove(e), on every
\* storage in the map's iteration order, with no Has test.  In a storage that
\* does not hold e, Remove's assert(Has(e)) fails; in a build without asserts
\* Remove reads sparse[e] or dense[INVALID_INDEX] out of bounds.  The storages
\* visited before that one have had e removed.
DestroyEntity(e) ==
    /\ ecsState = "ok"
    /\ LET holders == {c \in Storages : Has(c, e)}
       IN  IF holders = Storages
             THEN /\ sparse' = SparseWithout(holders, e)
                  /\ dense' = DenseWithout(holders, e)
                  /\ data' = DataWithout(holders, e)
                  /\ added' = AddedWithout(holders, e)
                  /\ UNCHANGED ecsState
             ELSE \E visited \in SUBSET holders :
                  /\ sparse' = SparseWithout(visited, e)
                  /\ dense' = DenseWithout(visited, e)
                  /\ data' = DataWithout(visited, e)
                  /\ added' = AddedWithout(visited, e)
                  /\ ecsState' \in {"aborted", "undefined"}
    /\ UNCHANGED pipeVars

\* A storage used through Add and Remove, Remove only on entities it holds
NextSparse ==
    \/ \E c \in Components, e \in Entities, v \in ComponentIds : Add(c, e, v)
    \/ \E c \in Components, e \in Entities : Remove(c, e)

SpecSparse == Init /\ [][NextSparse]_vars

\* The ECS used through AddComponent and DestroyEntity
NextEcs ==
    \/ \E c \in Components, e \in Entities, v \in ComponentIds : Add(c, e, v)
    \/ \E e \in Entities : DestroyEntity(e)

SpecEcs == Init /\ [][NextEcs]_vars

\* ------------------------------------------------------------------- claims

\* C1: the writer decodes into a slot only while that slot's ready flag is
\* false; between the main thread's load of ready == true and its own store
\* of false the flag stays true; and while the renderer reads the frame it
\* was handed (a frame that was published), no writer is decoding into that
\* slot.
C1_MutualExclusion ==
    /\ \A t \in Threads : Decoding(t) => ~ready[pslot[t]]
    /\ mpc \in {"sw_out", "sw_clr"} => ready[cslot]
    /\ mpc = "r_read" =>
         /\ framePtr # NoSlot
         /\ PubPos(pool[framePtr]) > 0
         /\ \A t \in Threads : Decoding(t) => pslot[t] # framePtr

\* the renderer is reading a frame while the writer, having gone once round
\* the ring, is decoding into another slot
C1_Witness ==
    /\ mpc = "r_read"
    /\ \E t \in Threads : Decoding(t) /\ nextId >= RING_SIZE

\* C2: from the moment SwapNextFrame hands out a slot until it hands out the
\* next one, no writer decodes into that slot and its buffer still holds the
\* frame that was handed out.
C2_HeldFrameStable ==
    framePtr # NoSlot =>
        /\ Len(claimed) > 0
        /\ pool[framePtr] = claimed[Len(claimed)]
        /\ \A t \in Threads : ppc[t] \in {"p_decode", "p_pub"} => pslot[t] # framePtr

\* the writer has come round the ring and is decoding into the slot just
\* before the one the renderer holds
C2_Witness ==
    /\ framePtr # NoSlot
    /\ mpc \in {"r_upd", "r_read", "m_idle"}
    /\ \E t \in Threads : Decoding(t) /\ NextWriteIdx(pslot[t]) = framePtr

\* C3 as stated: once a call has returned true handing out slot i, the writer
\* does not decode into slot i before RING_SIZE - 1 further frames have been
\* published after that return.
C3_AsStated ==
    \A t \in Threads :
        (Decoding(t) /\ pslot[t] = watchSlot) =>
            Len(published) - watchPub >= RING_SIZE - 1

\* C3 amended: the writer decodes into a slot that held a frame only after
\* RING_SIZE - 1 further frames have been published since that frame was
\* itself published, and after the consumer has claimed that frame and the
\* one after it; counted from the return of the call that handed the slot
\* out, at least one further frame has been published.
C3_Amended ==
    \A t \in Threads :
        /\ (Decoding(t) /\ pool[pslot[t]] # 0) =>
             LET j == PubPos(pool[pslot[t]])
             IN  /\ j > 0
                 /\ Len(published) - j >= RING_SIZE - 1
                 /\ Len(claimed) > j
        /\ (Decoding(t) /\ pslot[t] = watchSlot) =>
             Len(published) - watchPub >= 1

\* the writer decodes into a slot handed out by a call since whose return
\* only one further frame was published
C3_Witness ==
    \E t \in Threads :
        /\ Decoding(t)
        /\ pslot[t] = watchSlot
        /\ Len(published) - watchPub = 1

\* C4: at most RING_SIZE - 1 slots are ready, and every frame that is
\* published and not yet claimed still sits in a ready slot that no writer
\* is decoding into or about to publish again.
C4_NoOverflow ==
    /\ NumReady <= RING_SIZE - 1
    /\ \A j \in (Len(claimed) + 1) .. Len(published) :
         \E s \in Slots :
            /\ ready[s]
            /\ pool[s] = published[j]
            /\ \A t \in Threads : ppc[t] \in {"p_decode", "p_pub"} => pslot[t] # s

\* the ring is full and the writer has just seen that there is no free slot
C4_Witness ==
    /\ NumReady = RING_SIZE - 1
    /\ ComputeFreeSlots = 0
    /\ \E t \in Threads : ppc[t] = "p_while" /\ writerRunning

\* C5: the value ComputeFreeSlots returns is in 0 .. RING_SIZE - 1 in every
\* reachable state, the windows between a ready store and the index store
\* that follows it included.
C5_FreeSlotsRange == ComputeFreeSlots \in 0 .. (RING_SIZE - 1)

\* the writer is between its ready store and its index store, the consumer
\* has already claimed that frame, and the read index is ahead of the write
\* index
C5_Witness ==
    /\ \E t \in Threads : ppc[t] = "p_adv"
    /\ readIdx = NextWriteIdx(writeIdx)
    /\ NumReady = 0
    /\ ComputeFreeSlots = 0

\* C6: the frames handed out are, in order, a prefix of the frames published.
C6_Fifo ==
    /\ Len(claimed) <= Len(published)
    /\ \A j \in 1 .. Len(claimed) : claimed[j] = published[j]

\* three frames have been handed out and the writer has wrapped the ring
C6_Witness ==
    /\ Len(claimed) >= 3
    /\ Len(published) > RING_SIZE

\* C7: with a decoder that always delivers and a consumer that stops claiming,
\* the ring fills to RING_SIZE - 1 ready slots and stays there, and in a full
\* ring the write index moves only after the read index has moved.
RingFull == NumReady = RING_SIZE - 1 /\ ComputeFreeSlots = 0

C7_FillsAndStays ==
    /\ <>[]RingFull
    /\ [][(RingFull /\ readIdx' = readIdx) => writeIdx' = writeIdx]_vars

\* the ring is full after the consumer claimed a frame, and the writer backs off
C7_Witness ==
    /\ RingFull
    /\ Len(claimed) >= 1
    /\ \E t \in Threads : ppc[t] = "p_wait"

\* C8: when StopBackgroundWriter has returned, the writer thread has left
\* WriterLoop and has been joined, whatever the state in which it was called.
C8_StopJoins ==
    (ret = "stop" /\ mpc \in {"m_idle", "m_stopped"})
        => (writerThread = NoThread /\ \A t \in Threads : ppc[t] = "none")

\* C9: when the pool, the ring and the thread handle are destroyed, the writer
\* thread has been told to stop and has been joined.
C9_DestroyAfterJoin ==
    phase \in {"destroyed", "terminated"}
        => (writerThread = NoThread /\ \A t \in Threads : ppc[t] = "none")

\* C10: over any sequence of StartBackgroundWriter and StopBackgroundWriter
\* calls, at most one thread is inside WriterLoop.
C10_SingleWriter == Cardinality({t \in Threads : Running(t)}) <= 1

\* C11: the writer's wait for a free slot can always return, also with the
\* ring full; and when StopBackgroundWriter clears the running flag while the
\* ring is full, and the consumer makes no further SwapNextFrame call, the
\* writer sees the cleared flag and leaves WriterLoop, and Stop returns.
C11_StopWithFullRing ==
    /\ [](\A t \in Threads : (Alive /\ ppc[t] = "p_wait") => ENABLED P_Wait(t))
    /\ (mpc = "sp_join" /\ RingFull)
          ~> (ret = "stop" /\ mpc \in {"m_idle", "m_stopped"}
              /\ \A t \in Threads : ~Running(t))

\* Stop has returned, the writer has been joined, and the ring is still full
C11_Witness ==
    /\ phase = "shutdown" /\ mpc = "m_stopped" /\ ret = "stop"
    /\ RingFull
    /\ writerThread = NoThread
    /\ \A t \in Threads : ppc[t] = "none"

\* positions of WriterLoop from the decode call to the loop conditions that
\* follow it
InFlight == {"p_decode", "p_pub", "p_adv", "p_loop", "p_seek", "p_for", "p_while"}

\* C12: when the running flag is cleared while the writer is inside
\* decode_next_frame, the writer publishes at most the frame of that call,
\* never enters decode_next_frame again, and, once the call has returned,
\* leaves its loop.
C12_StopDuringDecode ==
    /\ [][\A t \in Threads :
            (~writerRunning /\ ppc[t] \in InFlight)
                => /\ ppc'[t] \in InFlight \cup {"p_done", "p_throw"}
                   /\ ppc'[t] = "p_decode" => ppc[t] = "p_decode"
                   /\ ppc'[t] = "p_pub" => ppc[t] \in {"p_decode", "p_pub"}
                   /\ ~writerRunning']_vars
    /\ (~writerRunning /\ \E t \in Threads : ppc[t] = "p_decode")
          ~> (\A t \in Threads : ppc[t] \in {"p_done", "none", "p_throw"})

\* Stop has cleared the flag and waits in join while the writer is inside
\* decode_next_frame
C12_Witness ==
    /\ mpc = "sp_join" /\ ~writerRunning
    /\ \E t \in Threads : ppc[t] = "p_decode" /\ writerThread = t

\* StartBackgroundWriter has been called, the running flag is clear, and no
\* thread is anywhere in WriterLoop but at its loop condition
WriterStopped ==
    /\ mpc \notin {"m_boot", "m_loaded", "st_cas", "st_spawn"}
    /\ ~writerRunning
    /\ \A t \in Threads : ppc[t] \in {"p_while", "p_done", "none"}

\* C13: with looping off, the writer answers end of stream by clearing the
\* running flag and leaving its loop without publishing; from then on
\* writeIdx never changes and no ready flag is set, and the thread reaches the
\* end of WriterLoop unless the process ends first.
C13_EosNoLoop ==
    /\ [][\A t \in Threads :
            (~looping /\ ppc[t] = "p_loop" /\ ppc'[t] # "p_loop")
                => /\ ~writerRunning'
                   /\ WriterStopped'
                   /\ UNCHANGED << writeIdx, ready, published >>]_vars
    /\ [][(~looping /\ WriterStopped)
            => /\ WriterStopped'
               /\ writeIdx' = writeIdx
               /\ \A s \in Slots : ready'[s] => ready[s]]_vars
    /\ (~looping /\ \E t \in Threads : ppc[t] = "p_loop")
          ~> (~Alive \/ \A t \in Threads : ppc[t] \in {"p_done", "none"})

\* the writer decoded frames, met end of stream with looping off and has left
\* WriterLoop on its own
C13_Witness ==
    /\ ~looping /\ ~writerRunning
    /\ phase = "live" /\ mpc = "m_idle"
    /\ Len(published) >= 1
    /\ \E t \in Threads : ppc[t] = "p_done"

\* C14: with looping on, an end-of-stream result is followed by one
\* seek_to_start call; neither publishes a slot or moves writeIdx; the next
\* frame decoded is published at the slot writeIdx still names; and writeIdx
\* is always the number of published frames modulo RING_SIZE.
C14_LoopingNoGap ==
    /\ [](writeIdx = CMod(Len(published)
                           - Cardinality({t \in Threads : ppc[t] = "p_adv"}),
                          RING_SIZE))
    /\ [][\A t \in Threads :
            /\ (ppc[t] = "p_decode" /\ ppc'[t] = "p_loop")
                  => UNCHANGED << writeIdx, ready, published >>
            /\ (looping /\ ppc[t] = "p_loop" /\ ppc'[t] # "p_loop")
                  => (ppc'[t] = "p_seek" /\ UNCHANGED << writeIdx, ready, published >>)
            /\ (ppc'[t] = "p_seek" /\ ppc[t] # "p_seek") => ppc[t] = "p_loop"
            /\ (ppc[t] = "p_seek" /\ ppc'[t] # "p_seek")
                  => (ppc'[t] \in {"p_for", "p_while"}
                      /\ UNCHANGED << writeIdx, ready, published >>)
            /\ (ppc[t] = "p_decode" /\ ppc'[t] = "p_pub") => pslot[t] = writeIdx
            /\ (ppc[t] = "p_pub" /\ ppc'[t] = "p_adv")
                  => (pslot[t] = writeIdx /\ ready'[writeIdx])]_vars

\* in one pass of the for loop the writer met end of stream, rewound, and now
\* has the next frame decoded for publication: more iterations than frames
C14_Witness ==
    /\ looping
    /\ Len(published) >= 1
    /\ \E t \in Threads : ppc[t] = "p_pub" /\ pi[t] > Len(published)

\* C15: with looping on, a failed seek_to_start after end of stream makes the
\* writer clear the running flag and leave its loop; it publishes nothing and
\* writeIdx stays where it was, then and afterwards.
C15_SeekFailStops ==
    /\ [][\A t \in Threads :
            (ppc[t] = "p_seek" /\ ppc'[t] \notin {"p_seek", "p_for"})
                => /\ ~writerRunning'
                   /\ WriterStopped'
                   /\ UNCHANGED << writeIdx, ready, published >>]_vars
    /\ [][(looping /\ WriterStopped)
            => /\ WriterStopped'
               /\ UNCHANGED << writeIdx, published >>
               /\ \A t \in Threads :
                     ppc[t] = "p_while" => ppc'[t] \in {"p_while", "p_done"}]_vars

\* the writer published frames, then a seek failed and it left WriterLoop
C15_Witness ==
    /\ looping /\ ~writerRunning
    /\ phase = "live" /\ mpc = "m_idle"
    /\ Len(published) >= 1
    /\ \E t \in Threads : ppc[t] = "p_done" /\ writerThread = t

\* C16: a decoder error other than end of stream stops the writer only: the
\* running flag is cleared, nothing leaves the writer thread and the process
\* lives on.
C16_DecodeErrorContained ==
    \A t \in Threads :
        ppc[t] = "p_throw" => (phase # "terminated" /\ ~writerRunning)

\* C17: when the download or demuxer.init fails, the writer clears the running
\* flag and returns; no ready flag is ever set, writeIdx never moves, and no
\* SwapNextFrame call returns true.
C17_StartupFailure ==
    /\ [][\A t \in Threads :
            (ppc[t] = "p_download" /\ ppc'[t] \notin {"p_download", "p_while"})
                => /\ ~writerRunning'
                   /\ ppc'[t] = "p_done"
                   /\ WriterStopped'
                   /\ published' = << >>
                   /\ UNCHANGED << writeIdx, ready >>]_vars
    /\ [][(WriterStopped /\ published = << >>)
            => /\ WriterStopped'
               /\ published' = << >>
               /\ writeIdx' = writeIdx
               /\ \A s \in Slots : ~ready'[s]
               /\ ret' # "swap_true"]_vars

\* the writer returned before its loop, and a later SwapNextFrame that was due
\* found no ready slot
C17_Witness ==
    /\ ~writerRunning /\ published = << >>
    /\ phase = "live" /\ mpc = "m_idle" /\ ret = "swap_empty"
    /\ \E t \in Threads : ppc[t] = "p_done" /\ ptoFetch[t] = 0 /\ pi[t] = 0

\* C18: a SwapNextFrame call whose now is before nextReadTime returns false
\* and changes neither nextReadTime nor readIdx nor any ready flag nor the
\* frame handed out, whatever the ring holds.
C18_EarlyCallNoEffect ==
    [][(mpc = "m_idle" /\ mpc' \in {"r_upd", "sw_load"}
            /\ nowSeconds' < nextReadTime)
          => /\ ret' = "swap_early"
             /\ mpc' = "r_upd"
             /\ UNCHANGED << nextReadTime, readIdx, writeIdx, ready, pool,
                             framePtr, frameReady, claimed >>]_vars

\* a call came before its time while the ring held ready frames
C18_Witness ==
    /\ mpc = "r_upd" /\ ret = "swap_early"
    /\ nowSeconds < nextReadTime
    /\ NumReady >= 1 /\ ready[readIdx]

\* C19: a SwapNextFrame call whose now has reached nextReadTime sets
\* nextReadTime to old + period when that is after now and to now + period
\* otherwise, so that now < nextReadTime <= now + period afterwards.
C19_Schedule ==
    [][(mpc = "m_idle" /\ mpc' \in {"r_upd", "sw_load"}
            /\ nowSeconds' >= nextReadTime)
          => /\ mpc' = "sw_load"
             /\ nextReadTime' = IF nextReadTime + Period(fps) > nowSeconds'
                                  THEN nextReadTime + Period(fps)
                                  ELSE nowSeconds' + Period(fps)
             /\ nowSeconds' < nextReadTime'
             /\ nextReadTime' <= nowSeconds' + Period(fps)]_vars

\* the call before this one claimed a frame at time 0 and scheduled time 1;
\* this call comes at time 2, a period late, and schedules now + period
C19_Witness ==
    /\ mpc = "sw_load" /\ ret = "swap_true"
    /\ fps = DefaultFps
    /\ lastClaimNow = 0 /\ nowSeconds = 2
    /\ nextReadTime = nowSeconds + Period(fps)

\* C20 as stated: two consecutive calls that return true have now values at
\* least one period apart.
C20_AsStated ==
    [][(mpc = "sw_adv" /\ mpc' = "r_upd" /\ lastClaimNow # NoTime)
          => nowSeconds - lastClaimNow >= Period(fps)]_vars

\* C20: two consecutive calls that return true have increasing now values,
\* and the schedule left by the second is more than one period after the
\* first: a third claim cannot come within one period of the first.
C20_Amended ==
    [][(mpc = "sw_adv" /\ mpc' = "r_upd" /\ lastClaimNow # NoTime)
          => /\ nowSeconds > lastClaimNow
             /\ nextReadTime > lastClaimNow + Period(fps)
             /\ nextReadTime > nowSeconds]_vars

\* a second claim is about to return less than one period after the first
C20_Witness ==
    /\ mpc = "sw_adv"
    /\ lastClaimNow # NoTime
    /\ nowSeconds > lastClaimNow
    /\ nowSeconds - lastClaimNow < Period(fps)

\* ------------------------------------------------------------------- C21
\* C21: a due SwapNextFrame call (its timing block has advanced
\* nextReadTime) that finds the slot at readIdx not ready returns false and
\* changes neither readIdx nor any ready flag nor the handed-out frame; the
\* advanced nextReadTime is kept, so it lies after the time of the call and the
\* scheduled time that was missed is not tried again.
C21_EmptyDueCall ==
    [][(mpc = "sw_load" /\ mpc' # "sw_load" /\ ~ready[readIdx]) =>
          /\ mpc' = "r_upd"
          /\ ret' = "swap_empty"
          /\ UNCHANGED << readIdx, ready, writeIdx, pool, framePtr, frameReady,
                          claimed, nextReadTime >>
          /\ nextReadTime' > nowSeconds']_vars

C21_Witness ==
    /\ mpc = "r_upd" /\ ret = "swap_empty"
    /\ ~ready[readIdx]
    /\ nextReadTime > nowSeconds
    /\ \E t \in Threads : Running(t)
    /\ Len(claimed) >= 1

\* ------------------------------------------------------------------- C22
\* C22: a due SwapNextFrame call that finds slot r = readIdx ready hands out
\* the frame of slot r, sets the ready flag of slot r false, sets readIdx to
\* (r + 1) mod RING_SIZE and returns true; it changes the flag of no other
\* slot and never writeIdx.  During the whole claim r is still readIdx.
C22_ClaimReadySlot ==
    /\ [](mpc \in {"sw_out", "sw_clr", "sw_adv"} => cslot = readIdx)
    /\ [](mpc = "sw_out" => ready[cslot])
    /\ [][/\ (mpc = "sw_load" /\ mpc' # "sw_load" /\ ready[readIdx]) =>
               /\ mpc' = "sw_out" /\ cslot' = readIdx
               /\ UNCHANGED << readIdx, writeIdx, ready, framePtr, claimed >>
          /\ (mpc = "sw_out" /\ mpc' # "sw_out") =>
               /\ mpc' = "sw_clr"
               /\ framePtr' = cslot /\ frameReady'
               /\ claimed' = Append(claimed, pool[cslot])
               /\ UNCHANGED << readIdx, writeIdx, ready, pool >>
          /\ (mpc = "sw_clr" /\ mpc' # "sw_clr") =>
               /\ mpc' = "sw_adv"
               /\ ready' = [ready EXCEPT ![cslot] = FALSE]
               /\ UNCHANGED << readIdx, writeIdx, framePtr, claimed >>
          /\ (mpc = "sw_adv" /\ mpc' # "sw_adv") =>
               /\ mpc' = "r_upd" /\ ret' = "swap_true"
               /\ readIdx' = CMod(cslot + 1, RING_SIZE)
               /\ UNCHANGED << writeIdx, ready, framePtr, claimed >>]_vars

C22_Witness ==
    /\ mpc = "r_upd" /\ ret = "swap_true"
    /\ framePtr = cslot
    /\ readIdx = CMod(cslot + 1, RING_SIZE)
    /\ ~ready[cslot]
    /\ ready[readIdx]
    /\ Len(claimed) >= 2
    /\ claimed[Len(claimed)] = pool[cslot]

\* ------------------------------------------------------------------- C23
\* The steps SwapNextFrame takes after its timing block, and their order
SwapStep ==
    \/ Sw_Load
    \/ Sw_Out
    \/ Sw_Clr
    \/ Sw_Adv

SwapRank(pc) ==
    CASE pc = "sw_load" -> 1
      [] pc = "sw_out"  -> 2
      [] pc = "sw_clr"  -> 3
      [] pc = "sw_adv"  -> 4
      [] OTHER          -> 5

InSwap == mpc \in {"sw_load", "sw_out", "sw_clr", "sw_adv"}

\* C23: SwapNextFrame never waits for the producer.  Wherever the call
\* stands, its next step can be taken whatever the producer is doing (inside
\* the download, inside decode, waiting on a full ring, or gone), and every
\* step moves the call strictly forward through at most four positions after
\* the timing block, so the call ends after a bounded number of its own steps.
C23_SwapNeverWaits ==
    /\ []((Alive /\ InSwap) => ENABLED SwapStep)
    /\ []((phase = "live" /\ mpc = "m_idle") =>
             \A now \in Times : now >= nowSeconds => ENABLED Sw_Time(now))
    /\ [][(InSwap /\ mpc' # mpc) => SwapRank(mpc') > SwapRank(mpc)]_vars
    /\ [][(InSwap /\ SwapRank(mpc') = 5 /\ mpc' # mpc) => mpc' = "r_upd"]_vars

\* a call has returned false while the producer was inside the download, and
\* the producer is still there
C23_Witness ==
    /\ mpc = "r_upd" /\ ret = "swap_empty"
    /\ \E t \in Threads : ppc[t] = "p_download"

\* ------------------------------------------------------------------- C24
\* no writer thread is inside WriterLoop any more, and one has been started
WriterGone ==
    /\ ~writerRunning
    /\ mpc \notin {"m_boot", "m_loaded", "st_cas", "st_spawn"}
    /\ \A t \in Threads : ppc[t] \in {"p_done", "none"}

\* frames published and not yet handed out
Pending == Len(published) - Len(claimed)

\* the slot the next claim will look at: a claim past its hand-out has not
\* stored readIdx yet
NextClaimSlot ==
    IF mpc \in {"sw_clr", "sw_adv"} THEN NextReadIdx(cslot) ELSE readIdx

\* C24: once the producer has left WriterLoop (stop, end of stream, seek or
\* init failure) the ring holds exactly the frames published and not yet
\* claimed, in publication order from the next slot to be claimed on, and no
\* other slot is ready: due SwapNextFrame calls hand out those frames in order
\* and, when none is left, find the slot at readIdx not ready.
C24_DrainAfterExit ==
    WriterGone =>
      /\ Pending \in 0 .. RING_SIZE - 1
      /\ \A s \in Slots :
            LET k == CMod(s - NextClaimSlot + RING_SIZE, RING_SIZE)
            IN  IF k < Pending
                  THEN ready[s] /\ pool[s] = published[Len(claimed) + 1 + k]
                  ELSE ~ready[s] \/ (mpc = "sw_clr" /\ s = cslot)
      /\ (Pending = 0 /\ mpc \notin {"sw_clr"}) => ~ready[readIdx]

\* the producer has gone, every published frame has been handed out, and a
\* later due call has returned false
C24_Witness ==
    /\ WriterGone /\ phase = "live"
    /\ Len(published) >= 2 /\ Pending = 0
    /\ mpc = "r_upd" /\ ret = "swap_empty"

\* ------------------------------------------------------------------- C25
\* C25: SetFPS(newFps) called at time now stores newFps as the rate and sets
\* nextReadTime to now; readIdx, writeIdx, every ready flag, the frames, the
\* handed-out frame, the running flag, looping and the writer's position are
\* left as they were.  Until the next call nextReadTime is the time of the
\* SetFPS call, so a SwapNextFrame at that time is due.
C25_SetFpsEffect ==
    /\ [][\A f \in ManifestFps, now \in Times :
            SetFPS(f, now) =>
              /\ fps' = f
              /\ nextReadTime' = now
              /\ UNCHANGED << readIdx, writeIdx, ready, pool, framePtr,
                              frameReady, writerRunning, looping, writerThread,
                              ppc, published, claimed >>]_vars
    /\ []((mpc = "m_idle" /\ ret = "set_fps") => nextReadTime = nowSeconds)

\* the rate was changed in mid-play, with frames in the ring and the schedule
\* ahead of the clock just before
C25_Witness ==
    /\ mpc = "m_idle" /\ ret = "set_fps"
    /\ fps = DefaultFps \div 2
    /\ nowSeconds >= 1 /\ nextReadTime = nowSeconds
    /\ writerRunning /\ NumReady >= 1 /\ readIdx >= 1

\* ------------------------------------------------------------------- C26
\* the positions of WriterLoop
WriterPcs ==
    {"p_download", "p_while", "p_wait", "p_chk", "p_free", "p_for", "p_slot",
     "p_rdy", "p_decode", "p_loop", "p_seek", "p_pub", "p_adv", "p_done",
     "p_throw"}

\* thread t can take a step of WriterLoop that leaves it at position pc
WriterCanReach(t, pc) == ENABLED (WriterLoop(t) /\ ppc'[t] = pc)

\* thread t can take a step of WriterLoop that clears the running flag
WriterCanClear(t) == ENABLED (WriterLoop(t) /\ writerRunning /\ ~writerRunning')

\* C26: the producer reads looping only on end of stream.  A store to looping
\* changes nothing but looping; when the writer is anywhere but at the looping
\* test, the steps it can take next are the same before and after the store
\* (the two states of a store differ in looping only, so checking the stores
\* of false covers the stores of true).  At the test the value current at that
\* moment decides: true goes on to seek_to_start with the running flag kept,
\* false clears the running flag and leaves the for loop.
C26_LoopingReadAtEos ==
    /\ [][looping' # looping =>
            UNCHANGED << ringVars, ppc, prodLocals, writerRunning, nextId,
                         published >>]_vars
    /\ [][(looping /\ ~looping') =>
            \A t \in Threads :
              (Running(t) /\ ppc[t] # "p_loop") =>
                /\ WriterCanClear(t) = WriterCanClear(t)'
                /\ \A pc \in WriterPcs :
                     WriterCanReach(t, pc) = WriterCanReach(t, pc)']_vars
    /\ [][\A t \in Threads :
            (ppc[t] = "p_loop" /\ ppc'[t] # "p_loop") =>
              IF looping
                THEN ppc'[t] = "p_seek" /\ writerRunning' = writerRunning
                ELSE ppc'[t] = "p_while" /\ ~writerRunning']_vars

\* looping was stored false after frames had been published, and the writer
\* now stands at the looping test of an end of stream with the flag still set
C26_Witness ==
    /\ ~looping /\ writerRunning /\ phase = "live"
    /\ Len(published) >= 1
    /\ \E t \in Threads : ppc[t] = "p_loop"

\* ------------------------------------------------------------------- C27
\* C27: LoadManifest resets writeIdx and readIdx to 0 only while no producer
\* thread exists: in the application it runs once, in Init, before
\* StartBackgroundWriter, with the running flag false and the thread handle
\* empty.  No other step than the producer's store of writeIdx and the
\* consumer's store of readIdx changes an index while a producer is running.
C27_ResetWithoutProducer ==
    /\ [][\A f \in ManifestFps, now \in Times :
            LoadManifest(TRUE, f, now) =>
              /\ writeIdx' = 0 /\ readIdx' = 0
              /\ ~writerRunning /\ writerThread = NoThread
              /\ \A t \in Threads : ppc[t] = "none"
              /\ Len(published) = 0]_vars
    /\ [][(\/ (writeIdx' # writeIdx /\ \A t \in Threads : ppc[t] # "p_adv")
           \/ (readIdx' # readIdx /\ mpc # "sw_adv")) =>
            (~writerRunning /\ \A t \in Threads : ~Running(t))]_vars

\* the reset has been done and the writer is about to be started
C27_Witness ==
    /\ mpc = "m_loaded" /\ ret = "manifest_ok"
    /\ writeIdx = 0 /\ readIdx = 0
    /\ ~writerRunning /\ writerThread = NoThread
    /\ \A t \in Threads : ppc[t] = "none"

\* ------------------------------------------------------------------- C28
\* StopBackgroundWriter has cleared the running flag and waits in join while
\* the writer is still inside the download or demuxer.init, or has just left
\* them and stands before its first while test
StopDuringStartup(t) ==
    /\ mpc = "sp_join" /\ writerThread = t
    /\ nextId = 0
    /\ ppc[t] \in {"p_download", "p_while"}

\* C28: when StopBackgroundWriter is called while the producer is still
\* downloading or initialising the decoder, the producer, once that step has
\* returned, leaves WriterLoop at its first while test: it never calls
\* decode_next_frame, publishes nothing and moves no index; then join returns
\* and Stop returns with the thread handle empty.
C28_StopDuringStartup ==
    /\ [][\A t \in Threads :
            StopDuringStartup(t) =>
              /\ ppc'[t] \in {"p_download", "p_while", "p_done", "none"}
              /\ ~writerRunning'
              /\ UNCHANGED << ringVars, nextId, published >>]_vars
    /\ (\E t \in Threads : StopDuringStartup(t) /\ ppc[t] = "p_download")
          ~> (ret = "stop" /\ writerThread = NoThread /\ Len(published) = 0
              /\ \A t \in Threads : ppc[t] = "none")

\* Stop waits in join while the writer is inside the download
C28_Witness ==
    \E t \in Threads : StopDuringStartup(t) /\ ppc[t] = "p_download"

\* ------------------------------------------------------------------- C29
\* C29: once the writer has been started, writeIdx is changed only by the
\* producer's store at the end of a publication and readIdx only by the
\* consumer's store at the end of a claim; each change is the old index plus
\* one modulo RING_SIZE, and both indices are always in 0 .. RING_SIZE - 1.
C29_IndexOwnership ==
    /\ [](writeIdx \in Slots /\ readIdx \in Slots)
    /\ [][writeIdx' # writeIdx =>
            /\ \E t \in Threads :
                  ppc[t] = "p_adv" /\ ppc'[t] = "p_for" /\ writerThread = t
            /\ writeIdx' = CMod(writeIdx + 1, RING_SIZE)
            /\ UNCHANGED << mpc, readIdx >>]_vars
    /\ [][readIdx' # readIdx =>
            /\ mpc = "sw_adv" /\ mpc' = "r_upd"
            /\ readIdx' = CMod(readIdx + 1, RING_SIZE)
            /\ UNCHANGED << ppc, writeIdx >>]_vars

\* both indices have gone round the ring
C29_Witness ==
    /\ Len(published) > RING_SIZE /\ Len(claimed) > RING_SIZE
    /\ writeIdx = CMod(Len(published), RING_SIZE)
    /\ readIdx = CMod(Len(claimed), RING_SIZE)
    /\ mpc = "r_upd" /\ ret = "swap_true"

\* ------------------------------------------------------------------- C30
\* C30: a publication is three steps in this order: decode_next_frame fills
\* the buffer of a slot that is not ready, then ready is set true, then
\* writeIdx is advanced.  A claim is three steps in this order: the frame
\* pointer is copied out of a ready slot, then ready is set false, then
\* readIdx is advanced.  Every write of a buffer, a ready flag, the handed-out
\* pointer or an index is the step of its sequence, at its place.
C30_StepOrder ==
    /\ [][\A s \in Slots :
            /\ pool'[s] # pool[s] =>
                 \E t \in Threads :
                    /\ ppc[t] = "p_decode" /\ ppc'[t] = "p_pub" /\ pslot[t] = s
                    /\ ~ready[s] /\ ready' = ready /\ writeIdx' = writeIdx
            /\ (~ready[s] /\ ready'[s]) =>
                 \E t \in Threads :
                    /\ ppc[t] = "p_pub" /\ ppc'[t] = "p_adv" /\ pslot[t] = s
                    /\ pool' = pool /\ writeIdx' = writeIdx /\ writeIdx = s
            /\ (ready[s] /\ ~ready'[s]) =>
                 /\ mpc = "sw_clr" /\ mpc' = "sw_adv" /\ cslot = s
                 /\ framePtr = s /\ readIdx = s /\ readIdx' = readIdx]_vars
    /\ [][writeIdx' # writeIdx =>
            \E t \in Threads :
               /\ ppc[t] = "p_adv" /\ pslot[t] = writeIdx
               /\ pool' = pool /\ ready' = ready
               /\ published[Len(published)] = pool[pslot[t]]]_vars
    /\ [][(framePtr' # framePtr \/ claimed' # claimed) =>
            /\ mpc = "sw_out" /\ mpc' = "sw_clr"
            /\ ready[cslot] /\ ready' = ready /\ readIdx' = readIdx
            /\ framePtr' = cslot]_vars
    /\ [][readIdx' # readIdx =>
            /\ mpc = "sw_adv" /\ ~ready[cslot] /\ ready' = ready
            /\ framePtr = cslot /\ framePtr' = framePtr]_vars
    /\ [](\A t \in Threads :
            /\ ppc[t] = "p_pub" => ~ready[pslot[t]]
            /\ ppc[t] \in {"p_pub", "p_adv"} => writeIdx = pslot[t])

\* a publication stands between its ready store and its index store while a
\* claim stands between its pointer copy and its ready store
C30_Witness ==
    /\ mpc = "sw_clr"
    /\ \E t \in Threads : ppc[t] = "p_adv" /\ ready[pslot[t]] /\ pslot[t] # cslot

\* ------------------------------------------------------------------- C31
\* occupied-slot count as ComputeFreeSlots derives it, lines 414-416
UsedSlots == CMod(writeIdx - readIdx + RING_SIZE, RING_SIZE)

\* neither thread stands between its ready store and its index store
Quiescent ==
    /\ \A t \in Threads : ppc[t] # "p_adv"
    /\ mpc # "sw_adv"

\* C31: whenever the producer is not between its ready = true store and its
\* writeIdx store and the consumer is not between its ready = false store and
\* its readIdx store, the ready slots are exactly the
\* (writeIdx - readIdx + RING_SIZE) mod RING_SIZE slots from readIdx on.
C31_ReadyIsOccupiedRange ==
    Quiescent =>
      {s \in Slots : ready[s]} =
        {CMod(readIdx + k, RING_SIZE) : k \in 0 .. UsedSlots - 1}

\* a quiescent state whose occupied range wraps round the end of the ring
C31_Witness ==
    /\ Quiescent
    /\ writeIdx < readIdx /\ writeIdx >= 1
    /\ UsedSlots >= 3
    /\ ready[RING_SIZE - 1] /\ ready[0]

\* ------------------------------------------------------------------- C32
\* C32: a producer that finds the slot at writeIdx still ready does not decode
\* into it and leaves the slot's flag, its buffer and writeIdx as they are,
\* going on to the next iteration of the for loop.  That branch is never
\* taken: whenever the producer has seen ComputeFreeSlots() > 0 and loaded
\* slot = writeIdx, the slot it goes on to test is not ready, and it is still
\* the slot at writeIdx.
C32_SkipBranchUnreachable ==
    /\ [](\A t \in Threads :
            ppc[t] = "p_rdy" => (~ready[pslot[t]] /\ pslot[t] = writeIdx))
    /\ [][\A t \in Threads :
            (ppc[t] = "p_slot" /\ ppc'[t] = "p_rdy") =>
               (ComputeFreeSlots > 0 /\ ~ready[writeIdx])]_vars
    /\ [][\A t \in Threads :
            (ppc[t] = "p_rdy" /\ ppc'[t] # "p_rdy" /\ ready[pslot[t]]) =>
               /\ ppc'[t] = "p_for" /\ pi'[t] = pi[t] + 1
               /\ UNCHANGED << ready, pool, writeIdx, nextId, published >>]_vars

\* the producer has seen a free slot and stands at the ready test of the slot
\* at writeIdx, which has been published and claimed before, while the ring
\* holds frames and the consumer is in the middle of a claim
C32_Witness ==
    /\ \E t \in Threads :
          ppc[t] = "p_rdy" /\ ~ready[pslot[t]] /\ pool[pslot[t]] # 0
    /\ NumReady >= 1
    /\ mpc = "sw_adv"

\* ------------------------------------------------------------------- C33
\* a due SwapNextFrame call is past its timing block
DueCall == mpc = "sw_load"

\* C33: with the producer running, a decoder that keeps delivering and both
\* threads scheduled, the pipeline keeps moving.  A due call that finds a
\* frame hands it out; and whenever a slot is free (the producer not standing
\* just before its writeIdx store), or the ring is full and a due call is
\* under way, another frame is published (as long as the stream
\* of the model has one): a full ring does not last.  The producer's wait
\* always returns, so it needs no notification to go on.
C33_PipelineProgress ==
    /\ \A n \in 0 .. MaxFrames - 1 :
          (writerRunning /\ Len(published) = n
             /\ (\A t \in Threads : ppc[t] # "p_adv")
             /\ (ComputeFreeSlots > 0 \/ (RingFull /\ DueCall)))
            ~> (Len(published) > n)
    /\ \A n \in 0 .. MaxFrames - 1 :
          (DueCall /\ ready[readIdx] /\ Len(claimed) = n)
            ~> (Len(claimed) > n /\ ret = "swap_true")
    /\ [](\A t \in Threads : ppc[t] = "p_wait" => ENABLED P_Wait(t))
    /\ [][\A t \in Threads :
            (ppc[t] = "p_free" /\ ppc'[t] # "p_free" /\ ComputeFreeSlots = 0) =>
               (ppc'[t] = "p_while" /\ writerRunning')]_vars

\* the ring is full, the producer waits, and a due call is under way
C33_Witness ==
    /\ RingFull /\ DueCall /\ writerRunning
    /\ Len(published) < MaxFrames
    /\ \E t \in Threads : ppc[t] = "p_wait"

\* ------------------------------------------------------------------- C34
\* C34: after Stop, a LoadManifest that resets both indices, and Start, the
\* consumer is handed only frames published since the reload, in publication
\* order, and outside the two store windows the ready slots are the occupied
\* range from readIdx on, also when unclaimed frames were in the ring at the
\* stop.
C34_FreshAfterRestart ==
    /\ Len(claimed) <= Len(published)
    /\ \A j \in 1 .. Len(claimed) : claimed[j] = published[j]
    /\ Quiescent =>
         {s \in Slots : ready[s]} =
           {CMod(readIdx + k, RING_SIZE) : k \in 0 .. UsedSlots - 1}

\* ------------------------------------------------------------------- C35
\* C35: SwapNextFrame takes its period from max(fps, 1).  The divisor is never
\* below 1, and with a stored fps <= 0 the timing block does what it does with
\* fps = 1: the same calls are early, and a due call moves nextReadTime by the
\* period of one frame per second, or to now plus that period when lagging.
C35_FpsClamp ==
    /\ [](LocalFps(fps) >= 1)
    /\ [](\A f \in FpsInputs : f <= 0 =>
             (LocalFps(f) = 1 /\ Period(f) = Period(1)))
    /\ [][(fps <= 0 /\ mpc = "m_idle" /\ mpc' \in {"sw_load", "r_upd"}) =>
            IF nowSeconds' < nextReadTime
              THEN mpc' = "r_upd" /\ ret' = "swap_early" /\ UNCHANGED nextReadTime
              ELSE /\ mpc' = "sw_load"
                   /\ nextReadTime' =
                        IF nextReadTime + Period(1) <= nowSeconds'
                          THEN nowSeconds' + Period(1)
                          ELSE nextReadTime + Period(1)]_vars

\* a due call was made with an invalid rate stored and frames in the ring:
\* the next frame is scheduled one second after the time set by SetFPS
C35_Witness ==
    /\ fps <= 0
    /\ mpc = "sw_load" /\ ret = "set_fps"
    /\ nextReadTime = nowSeconds + TicksPerSecond
    /\ NumReady >= 1

\* ------------------------------------------------------------------- C36
\* the entities a storage holds
Held(c) == {dense[c][i] : i \in 1 .. Len(dense[c])}

\* C36: after any sequence of Add and Remove calls, Remove only on entities
\* that are present, in every storage dense and data have the same length,
\* dense holds no entity twice, Has(e) is true exactly for the entities in
\* dense, dense[sparse[e]] is e for each of them, and Get(e) is the component
\* that was added for e.  An Add for an entity that is present changes nothing.
C36_SparseSetConsistent ==
    /\ [](\A c \in Components :
            /\ Len(dense[c]) = Len(data[c])
            /\ Cardinality(Held(c)) = Len(dense[c])
            /\ \A e \in Entities : Has(c, e) <=> e \in Held(c)
            /\ \A e \in Held(c) :
                  /\ sparse[c][e + 1] \in 0 .. Len(dense[c]) - 1
                  /\ dense[c][sparse[c][e + 1] + 1] = e
                  /\ Get(c, e) = added[c][e]
                  /\ added[c][e] # NoComponent)
    /\ [][\A c \in Components, e \in Entities, v \in ComponentIds :
            (Add(c, e, v) /\ Has(c, e)) => UNCHANGED << sparse, dense, data >>]_vars

\* a storage from whose middle an entity was removed: the last entity was
\* moved into its place, and holds a component other than the one removed
C36_Witness ==
    \E c \in Components :
       /\ Len(sparse[c]) = MaxEntity + 1
       /\ dense[c] = << MaxEntity, 1 >>
       /\ ~Has(c, 0)
       /\ data[c] = << 2, 1 >>

\* ------------------------------------------------------------------- C37
\* C37: DestroyEntity(e) removes e from every storage that holds it and leaves
\* every storage that does not hold e unchanged and consistent, whichever
\* components e has: the call returns normally, no storage holds e after it,
\* and the storages that did not hold e keep their three vectors.
C37_DestroyEntityAnyCombination ==
    [][\A e \in Entities :
          DestroyEntity(e) =>
             /\ ecsState' = "ok"
             /\ \A c \in Components :
                   /\ ~(e < Len(sparse'[c]) /\ sparse'[c][e + 1] # INVALID_INDEX)
                   /\ ~Has(c, e) =>
                         /\ sparse'[c] = sparse[c]
                         /\ dense'[c] = dense[c]
                         /\ data'[c] = data[c]]_vars

====
